---- MODULE Spec2Model ----
(***************************************************************************)
(* Model of the Solodit findings crawler (src/fetch_solodit.py): the       *)
(* retrying page fetch (fetch_page), the per-category incremental sync     *)
(* (fetch_category), the state file (load_state / save_state) and the      *)
(* orchestration of one run (main).                                        *)
(*                                                                         *)
(* A finding is represented by its id, the only field the control logic    *)
(* reads; a row of a workbook is the id in its first column.  The remote   *)
(* listing of a category holds the ids 1..remote[c], served newest first.  *)
(***************************************************************************)
EXTENDS Integers, Sequences, FiniteSets, TLC

\* ------------------------------------------------------------------ bounds
\* page size of the simulated listing (the program asks for PAGE_SIZE = 100)
PAGE_SIZE == 2
\* most findings the remote catalogue ever holds, both categories together
MaxRemote == 5
\* most invocations of main in one behaviour
MaxRuns == 3

\* ------------------------------------------------------- program constants
MAX_RETRIES == 3
RETRY_DELAY == 5

\* The two severity partitions, in the order main syncs them.
Cat == {"HM", "LG"}

\* impact_filter of a category, as main passes it
ImpactFilter(c) == IF c = "HM" THEN {"HIGH", "MEDIUM"} ELSE {"LOW", "GAS"}

\* max_id_key of a category, as main passes it
MaxIdKey(c) == IF c = "HM" THEN "high_medium_max_id" ELSE "low_gas_max_id"

\* (variant: one count key for both categories)
CountKeyShared(c) == "high_medium_count"

\* count_key = "high_medium_count" if "HIGH" in impact_filter else "low_gas_count"
CountKey(c) == IF "HIGH" \in ImpactFilter(c) THEN "high_medium_count" ELSE "low_gas_count"

VARIABLES
    remote,        \* [Cat -> Nat]: the remote listing of c holds ids 1..remote[c]
    store,         \* [Cat -> Seq(Nat)]: data rows (ids) of c's xlsx file; <<>> = no file
    stateFile,     \* state.json: <<>> when absent, else <<state mapping>>
    runs,          \* number of invocations of main so far (also the clock)
    pc,            \* position of main: idle, begin, fetch, persist, save, done, aborted
    cat,           \* category being synced
    state,         \* main's in-memory state mapping
    wb,            \* fetch_category: data rows of the workbook in memory
    current_max_id,\* fetch_category local
    new_max_id,    \* fetch_category local
    new_findings,  \* fetch_category local (ids, in fetch order)
    page,          \* fetch_category local
    should_stop,   \* fetch_category local
    attempt,       \* fetch_page: loop variable of the call in progress
    delay,         \* fetch_page: the last backoff slept by the call in progress, 0 = none
    n429,          \* observer: 429 responses received by the call in progress
    nErr,          \* observer: transport failures of the call in progress
    obs,           \* observer: [Cat -> the category's sync in the current run]
    carry,         \* observer: [Cat -> what the run before it left behind]
    clean          \* observer: no earlier run met a fetch failure or a moving remote

vars == <<remote, store, stateFile, runs, pc, cat, state, wb, current_max_id,
          new_max_id, new_findings, page, should_stop, attempt, delay, n429,
          nErr, obs, carry, clean>>

locals == <<wb, current_max_id, new_max_id, new_findings, page, should_stop>>

\* ------------------------------------------------------------ pure helpers
Min2(a, b) == IF a <= b THEN a ELSE b

\* str(n) of a non-negative integer: its decimal digits
RECURSIVE IntToStr(_)
IntToStr(n) == IF n < 10 THEN <<n>> ELSE Append(IntToStr(n \div 10), n % 10)

\* int(s) of a decimal digit string
RECURSIVE StrToInt(_)
StrToInt(s) ==
    IF Len(s) = 0 THEN 0
    ELSE 10 * StrToInt(SubSeq(s, 1, Len(s) - 1)) + s[Len(s)]

\* the ids 1..n in ascending order
Asc(n) == [i \in 1..n |-> i]

\* reversed(seq)
Reversed(s) == [i \in 1..Len(s) |-> s[Len(s) - i + 1]]

\* ids held by a sequence of rows, and how often an id occurs in it
Ids(s) == {s[i] : i \in 1..Len(s)}
Occurrences(s, id) == Cardinality({i \in 1..Len(s) : s[i] = id})
MaxOf(S) == IF S = {} THEN 0 ELSE CHOOSE m \in S : \A x \in S : x <= m

\* ------------------------------------------------------- the remote listing
\* metadata.totalPages of a listing of n records
TotalPages(n) == (n + PAGE_SIZE - 1) \div PAGE_SIZE

\* findings of page p of a listing of n records sorted by recency, descending
PageOf(n, p) ==
    LET lo == (p - 1) * PAGE_SIZE + 1
        hi == Min2(p * PAGE_SIZE, n)
    IN  [k \in 1..(IF hi >= lo THEN hi - lo + 1 ELSE 0) |-> n - (lo + k - 1) + 1]

\* ------------------------------------------------------------- state file
\* last_run: 0 stands for None, a run's number for the time of its save_state
DefaultState ==
    [high_medium_max_id |-> IntToStr(0),
     low_gas_max_id     |-> IntToStr(0),
     last_run           |-> 0,
     high_medium_count  |-> 0,
     low_gas_count      |-> 0]

\* load_state(): the file's mapping, or the defaults when there is no file
LoadState == IF stateFile = <<>> THEN DefaultState ELSE stateFile[1]

\* save_state(state): stamps last_run and writes the mapping
SavedState(st, now) == <<[st EXCEPT !.last_run = now]>>

\* the watermark of category c in a state mapping: int(state.get(max_id_key, "0"))
Watermark(st, c) == StrToInt(st[MaxIdKey(c)])

\* --------------------------------------------------------------- fetch_page
\* "delay = RETRY_DELAY * (2 ** attempt)"
BackoffDelay(a) == RETRY_DELAY * 2^a

\* ----------------------------------------------------------- fetch_category
\* is_initial_fetch = current_max_id == 0
IsInitialFetch(cur) == cur = 0

\* the workbook fetch_category starts from
InitialWorkbook(cur, file) == IF IsInitialFetch(cur) THEN <<>> ELSE file

\* (variant: the running max started from the sentinel)
InitialNewMaxZero(cur) == 0

\* "new_max_id = current_max_id"
InitialNewMax(cur) == cur

\* "if finding_id > new_max_id: new_max_id = finding_id"
UpdateMax(finding_id, nmax) == IF finding_id > nmax THEN finding_id ELSE nmax

\* (variant: the boundary test with < in place of <=)
IsBoundaryStrict(finding_id, cur) == ~IsInitialFetch(cur) /\ finding_id < cur

\* "if not is_initial_fetch and finding_id <= current_max_id": boundary reached
IsBoundary(finding_id, cur) == ~IsInitialFetch(cur) /\ finding_id <= cur

\* the for loop over one page's findings, from index i on
RECURSIVE ScanFindings(_, _, _, _)
ScanFindings(findings, i, cur, s) ==
    IF i > Len(findings) THEN s
    ELSE LET fid == findings[i]
             m   == UpdateMax(fid, s.max)
         IN  IF IsBoundary(fid, cur)
             THEN [new |-> s.new, max |-> m, stop |-> TRUE]
             ELSE ScanFindings(findings, i + 1, cur,
                               [new |-> Append(s.new, fid), max |-> m, stop |-> FALSE])

\* "if page >= total_pages: break"
LastPage(p, total_pages) == p >= total_pages

\* (variant: the loop goes on whatever should_stop is)
LoopGoesOnAlways(stop) == TRUE

\* "while not should_stop"
LoopGoesOn(stop) == ~stop

\* the while loop from page p on, when every call of fetch_page returns its
\* page of a listing of n records: the accumulated findings and running max
RECURSIVE FetchPages(_, _, _, _)
FetchPages(n, p, cur, s) ==
    LET findings == PageOf(n, p)
        s2 == ScanFindings(findings, 1, cur, s)
    IN  IF findings = <<>> THEN s
        ELSE IF LastPage(p, TotalPages(n)) \/ ~LoopGoesOn(s2.stop) THEN s2
        ELSE FetchPages(n, p + 1, cur, s2)

\* (variant: the newest finding left out of the rows appended)
RowsToAppendDropNewest(new) == Reversed(SubSeq(new, 2, Len(new)))

\* rows appended to the worksheet: oldest first
RowsToAppend(new) == Reversed(new)

\* ----------------------------------------------------------------- observers
\* What is recorded of a category's call of fetch_category in the current run:
\*   w0      current_max_id, the watermark it started from
\*   snap    size of the remote listing when it started
\*   base    rows of the store file when it started
\*   changed whether the remote listing grew while it fetched
\*   some    whether at least one page was fetched and processed
\*   end     how its fetching ended: "none" (not called), "running", "ok"
\*           (boundary, last or empty page), "None" (fetch_page returned None),
\*           "raise" (fetch_page raised)
\*   ret     its return value, len(new_findings); -1 while it has not returned
\*   wrote   whether it saved the workbook
\*   again2  whether its request for page 2 was answered 429 once, and with
\*           the page on the next attempt
NoSync ==
    [w0 |-> 0, snap |-> 0, base |-> <<>>, changed |-> FALSE, some |-> FALSE,
     end |-> "none", ret |-> -1, wrote |-> FALSE, again2 |-> FALSE]

\* What is kept of the run before the current one, per category:
\*   partial the watermark its sync started from, when that sync was incremental,
\*           fetch_page returned None after earlier pages succeeded, the
\*           remote listing stood still meanwhile and the run went on to
\*           save_state; else 0
\*   redo    whether it was cut short after the category's store was written
\*   quiet   whether it reached save_state and the remote listing of the
\*           category has not grown since its sync of the category began
NoCarry == [partial |-> 0, redo |-> FALSE, quiet |-> FALSE]

CarryOf(c) ==
    [partial |-> IF /\ pc = "done"
                    /\ obs[c].w0 > 0
                    /\ obs[c].end = "None"
                    /\ obs[c].some
                    /\ ~obs[c].changed
                 THEN obs[c].w0 ELSE 0,
     redo    |-> pc = "aborted" /\ obs[c].wrote,
     quiet   |-> pc = "done" /\ ~obs[c].changed /\ remote[c] = obs[c].snap]

\* the run that just ended met no fetch failure and no remote growth mid-sync
CleanRun ==
    /\ pc \in {"idle", "done"}
    /\ \A c \in Cat : obs[c].end \in {"none", "ok"} /\ ~obs[c].changed

\* ------------------------------------------------------------------- Init
Init ==
    /\ remote = [c \in Cat |-> 0]
    /\ store = [c \in Cat |-> <<>>]
    /\ stateFile = <<>>
    /\ runs = 0
    /\ pc = "idle"
    /\ cat = "HM"
    /\ state = DefaultState
    /\ wb = <<>>
    /\ current_max_id = 0
    /\ new_max_id = 0
    /\ new_findings = <<>>
    /\ page = 1
    /\ should_stop = FALSE
    /\ attempt = 0
    /\ delay = 0
    /\ n429 = 0
    /\ nErr = 0
    /\ obs = [c \in Cat |-> NoSync]
    /\ carry = [c \in Cat |-> NoCarry]
    /\ clean = TRUE

\* ---------------------------------------------------------------- actions
\* The remote gains one record, with the next higher id.  Between the page
\* requests of a session the listing of the category being fetched may grow;
\* growth of the other category's listing during a session is the same as
\* growth before the run, which the first disjunct covers.
AddRemote(c) ==
    /\ remote["HM"] + remote["LG"] < MaxRemote
    /\ IF pc \in {"idle", "done", "aborted"}
       THEN obs' = obs
       ELSE /\ pc = "fetch"
            /\ cat = c
            /\ attempt = 0
            /\ obs' = [obs EXCEPT ![c].changed = TRUE]
    /\ remote' = [remote EXCEPT ![c] = @ + 1]
    /\ UNCHANGED <<store, stateFile, runs, pc, cat, state, locals, attempt, delay,
                   n429, nErr, carry, clean>>

\* main up to the first call of fetch_category: state = load_state()
StartRun ==
    /\ pc \in {"idle", "done", "aborted"}
    /\ runs < MaxRuns
    /\ runs' = runs + 1
    /\ state' = LoadState
    /\ cat' = "HM"
    /\ pc' = "begin"
    /\ carry' = [c \in Cat |-> CarryOf(c)]
    /\ clean' = (clean /\ CleanRun)
    /\ obs' = [c \in Cat |-> NoSync]
    /\ UNCHANGED <<remote, store, stateFile, locals, attempt, delay, n429, nErr>>

\* fetch_category up to its while loop
BeginCategory ==
    /\ pc = "begin"
    /\ LET cur == Watermark(state, cat)
       IN  /\ current_max_id' = cur
           /\ wb' = InitialWorkbook(cur, store[cat])
           /\ new_max_id' = InitialNewMax(cur)
           /\ obs' = [obs EXCEPT ![cat] =
                        [NoSync EXCEPT !.w0 = cur, !.snap = remote[cat],
                                       !.base = store[cat], !.end = "running"]]
    /\ page' = 1
    /\ new_findings' = <<>>
    /\ should_stop' = FALSE
    /\ attempt' = 0
    /\ delay' = 0
    /\ n429' = 0
    /\ nErr' = 0
    /\ pc' = "fetch"
    /\ UNCHANGED <<remote, store, stateFile, runs, cat, state, carry, clean>>

\* A request of fetch_page is answered with a page: fetch_page returns it and
\* fetch_category processes it (the body of its while loop).  The sleeps (low
\* remaining quota, REQUEST_DELAY) change no state.
RespOK ==
    /\ pc = "fetch"
    /\ LET findings    == PageOf(remote[cat], page)
           total_pages == TotalPages(remote[cat])
           s == ScanFindings(findings, 1, current_max_id,
                             [new |-> new_findings, max |-> new_max_id, stop |-> FALSE])
       IN  IF findings = <<>>
           THEN /\ pc' = "persist"
                /\ UNCHANGED <<new_findings, new_max_id, should_stop, page>>
           ELSE /\ new_findings' = s.new
                /\ new_max_id' = s.max
                /\ should_stop' = s.stop
                /\ IF LastPage(page, total_pages)
                   THEN /\ pc' = "persist"
                        /\ page' = page
                   ELSE /\ page' = page + 1
                        /\ pc' = IF LoopGoesOn(s.stop) THEN "fetch" ELSE "persist"
    /\ attempt' = 0
    /\ delay' = 0
    /\ n429' = 0
    /\ nErr' = 0
    /\ obs' = [obs EXCEPT ![cat].some = TRUE,
                          ![cat].end = IF pc' = "persist" THEN "ok" ELSE @,
                          ![cat].again2 = @ \/ (page = 2 /\ n429 = 1 /\ nErr = 0)]
    /\ UNCHANGED <<remote, store, stateFile, runs, cat, state, wb, current_max_id,
                   carry, clean>>

\* (variant: a 429 does not use up an attempt; followed for MAX_RETRIES + 1
\* such answers)
Resp429NotCounted ==
    /\ pc = "fetch"
    /\ n429 <= MAX_RETRIES
    /\ n429' = n429 + 1
    /\ UNCHANGED <<remote, store, stateFile, runs, pc, cat, state, locals, attempt,
                   delay, nErr, obs, carry, clean>>

\* (variant: the retry after a 429 asks for the page after the one asked for)
Resp429NextPage ==
    /\ pc = "fetch"
    /\ n429' = n429 + 1
    /\ IF attempt + 1 < MAX_RETRIES
       THEN /\ attempt' = attempt + 1
            /\ page' = page + 1
            /\ pc' = "fetch"
            /\ obs' = obs
       ELSE /\ attempt' = attempt
            /\ page' = page
            /\ pc' = "persist"
            /\ obs' = [obs EXCEPT ![cat].end = "None"]
    /\ UNCHANGED <<remote, store, stateFile, runs, cat, state, wb, current_max_id,
                   new_max_id, new_findings, should_stop, delay, nErr, carry,
                   clean>>

\* A request of fetch_page is answered 429: sleep, then `continue`, which takes
\* the next value of `attempt`; when the range is exhausted fetch_page returns
\* None and fetch_category leaves its loop.
Resp429 ==
    /\ pc = "fetch"
    /\ n429' = n429 + 1
    /\ IF attempt + 1 < MAX_RETRIES
       THEN /\ attempt' = attempt + 1
            /\ pc' = "fetch"
            /\ obs' = obs
       ELSE /\ attempt' = attempt
            /\ pc' = "persist"
            /\ obs' = [obs EXCEPT ![cat].end = "None"]
    /\ UNCHANGED <<remote, store, stateFile, runs, cat, state, locals, delay,
                   nErr, carry, clean>>

\* A request of fetch_page fails with a RequestException (transport failure,
\* or an error status through raise_for_status): back off and retry
\* while attempt < MAX_RETRIES - 1, else re-raise; nothing catches it, so it
\* ends main.  The locals keep the values they had when the frame was dropped.
RespErr ==
    /\ pc = "fetch"
    /\ nErr' = nErr + 1
    /\ IF attempt < MAX_RETRIES - 1
       THEN /\ attempt' = attempt + 1
            /\ delay' = BackoffDelay(attempt)
            /\ pc' = "fetch"
            /\ obs' = obs
       ELSE /\ attempt' = attempt
            /\ delay' = delay
            /\ pc' = "aborted"
            /\ obs' = [obs EXCEPT ![cat].end = "raise"]
    /\ UNCHANGED <<remote, store, stateFile, runs, cat, state, locals, n429,
                   carry, clean>>

\* fetch_category after its while loop: append, save the workbook, update the
\* state mapping; main then calls it for LOW/GAS or goes on to save_state.
Persist ==
    /\ pc = "persist"
    /\ IF new_findings # <<>>
       THEN /\ wb' = wb \o RowsToAppend(new_findings)
            /\ store' = [store EXCEPT ![cat] = wb']
       ELSE UNCHANGED <<wb, store>>
    /\ obs' = [obs EXCEPT ![cat].ret = Len(new_findings),
                          ![cat].wrote = (new_findings # <<>>)]
    /\ state' = [state EXCEPT ![MaxIdKey(cat)] = IntToStr(new_max_id),
                              ![CountKey(cat)] = @ + Len(new_findings)]
    /\ IF cat = "HM"
       THEN /\ cat' = "LG"
            /\ pc' = "begin"
       ELSE /\ cat' = cat
            /\ pc' = "save"
    /\ UNCHANGED <<remote, stateFile, runs, current_max_id, new_max_id,
                   new_findings, page, should_stop, attempt, delay, n429, nErr, carry,
                   clean>>

\* main: save_state(state)
SaveState ==
    /\ pc = "save"
    /\ stateFile' = SavedState(state, runs)
    /\ state' = stateFile'[1]
    /\ pc' = "done"
    /\ UNCHANGED <<remote, store, runs, cat, locals, attempt, delay, n429, nErr, obs,
                   carry, clean>>

\* The process is killed while main runs (power loss, SIGKILL).
Crash ==
    /\ pc \in {"begin", "fetch", "persist", "save"}
    /\ pc' = "aborted"
    /\ UNCHANGED <<remote, store, stateFile, runs, cat, state, locals, attempt, delay,
                   n429, nErr, obs, carry, clean>>

Next ==
    \/ StartRun
    \/ BeginCategory
    \/ RespOK
    \/ Resp429
    \/ RespErr
    \/ Persist
    \/ SaveState
    \/ \E c \in Cat : AddRemote(c)

Spec == Init /\ [][Next]_vars

\* The same program, which in addition may be killed at any point of a run.
SpecCrash == Init /\ [][Next \/ Crash]_vars

\* ================================================================== claims
\* the category's call of fetch_category in the current run has returned
Returned(c) == obs[c].ret >= 0

\* ... and its fetching met no failure and no growth of the remote listing
Undisturbed(c) == Returned(c) /\ obs[c].end = "ok" /\ ~obs[c].changed

\* the rows a call of fetch_category has added to the workbook it started from
Added(c) ==
    LET w0 == InitialWorkbook(obs[c].w0, obs[c].base)
    IN  SubSeq(store[c], Len(w0) + 1, Len(store[c]))

NoDuplicates(rows) == \A id \in Ids(rows) : Occurrences(rows, id) = 1

\* C1: with no fetch failure and a remote that only grows between runs, after
\* the initial run and the incremental run that follows it (and after every
\* further such run) the store of each category holds exactly the ids of the
\* remote listing as it was when the sync began, 1..N+M, once each, ascending.
C1_NoGapsNoDuplicates ==
    \A c \in Cat : (clean /\ Undisturbed(c)) => store[c] = Asc(obs[c].snap)

\* C1 witness: the second run, after a clean initial run that fetched more than
\* one page, has appended newer records to HIGH/MEDIUM.
C1_Witness ==
    /\ runs = 2
    /\ clean
    /\ Undisturbed("HM")
    /\ obs["HM"].w0 > PAGE_SIZE
    /\ obs["HM"].ret > 0
    /\ obs["HM"].snap = obs["HM"].w0 + obs["HM"].ret
    /\ store["HM"] = Asc(obs["HM"].snap)

\* C2: when a page fetch of an incremental sync fails after earlier pages
\* succeeded, the sync persists the records of those pages and sets the
\* watermark to their max id; and the next run, if nothing disturbs it, leaves
\* every remote id above the original watermark in the store exactly once.
C2_PartialFailureResume ==
    \A c \in Cat :
        /\ (obs[c].w0 > 0 /\ obs[c].some /\ obs[c].end = "None" /\ Returned(c))
              => /\ store[c] = obs[c].base \o Added(c)
                 /\ Len(Added(c)) = obs[c].ret
                 /\ Watermark(state, c) = MaxOf(Ids(Added(c)) \cup {obs[c].w0})
        /\ (carry[c].partial > 0 /\ Undisturbed(c))
              => \A id \in (carry[c].partial + 1)..obs[c].snap :
                     Occurrences(store[c], id) = 1

\* C3: when fetch_page gives up on a page after earlier pages were accumulated
\* (it returns None, or raises), the accumulated records are in the store and
\* the category's watermark is their max id once the sync is over.
C3_GiveUpKeepsAccumulated ==
    /\ \A c \in Cat :
          (obs[c].end = "None" /\ Returned(c) /\ obs[c].ret > 0)
              => /\ Len(Added(c)) = obs[c].ret
                 /\ Watermark(state, c) = MaxOf(Ids(Added(c)))
    /\ (pc = "aborted" /\ obs[cat].end = "raise" /\ new_findings # <<>>)
              => /\ Ids(new_findings) \subseteq Ids(store[cat])
                 /\ Watermark(state, cat) = MaxOf(Ids(new_findings))

\* C4: when a run is over, a page-fetch failure in HIGH/MEDIUM has not kept
\* LOW/GAS from being synced, and a failure in either has not kept save_state
\* from running.
C4_FailureIsolated ==
    pc \in {"done", "aborted"} =>
        /\ obs["HM"].end \in {"None", "raise"} => obs["LG"].end # "none"
        /\ (\E c \in Cat : obs[c].end \in {"None", "raise"}) => pc = "done"

\* C5: 429 responses are not counted against the retry budget: fetch_page never
\* returns None, and it raises only after MAX_RETRIES transport failures.
C5_RateLimitNotCounted ==
    \A c \in Cat :
        /\ obs[c].end # "None"
        /\ obs[c].end = "raise" => nErr = MAX_RETRIES

\* C6: at every point, also after a crash or an exception, the watermark in the
\* state file of a category is at most the largest id in the category's store
\* (0 for a store without data).
C6_WatermarkWithinStore ==
    \A c \in Cat : Watermark(LoadState, c) <= MaxOf(Ids(store[c]))

\* C6 witness: a run was cut short after it wrote HIGH/MEDIUM's store, whose
\* watermark in the state file is that of an earlier run.
C6_Witness ==
    /\ pc = "aborted"
    /\ obs["HM"].wrote
    /\ Watermark(LoadState, "HM") > 0
    /\ Watermark(LoadState, "HM") < MaxOf(Ids(store["HM"]))

\* C7: when the run before was cut short after the category's store was
\* written and before save_state, an undisturbed sync keeps every record the
\* store held and leaves no id in it twice.
C7_RefetchIsHarmless ==
    \A c \in Cat :
        (carry[c].redo /\ Undisturbed(c))
            => /\ Ids(obs[c].base) \subseteq Ids(store[c])
               /\ NoDuplicates(store[c])

\* C8: a sync that follows a completed run, with no new remote data since that
\* run's sync of the category began, returns 0, leaves watermark and count as
\* they were and appends nothing to the store.
C8_Idempotent ==
    \A c \in Cat :
        (carry[c].quiet /\ Returned(c) /\ ~obs[c].changed /\ pc # "done")
            => /\ obs[c].ret = 0
               /\ Watermark(state, c) = obs[c].w0
               /\ state[CountKey(c)] = LoadState[CountKey(c)]
               /\ store[c] = obs[c].base

\* C9: a call of fetch_category never lowers the category's watermark, and the
\* watermark in the state file never decreases.
C9_WatermarkMonotonic ==
    [][/\ pc = "persist" => Watermark(state', cat) >= Watermark(state, cat)
       /\ \A c \in Cat : Watermark(LoadState', c) >= Watermark(LoadState, c)]_vars

\* C9 witness: a sync cut short by a failed page fetch has returned and raised
\* the watermark of HIGH/MEDIUM above a non-zero one.
C9_Witness ==
    /\ obs["HM"].end = "None"
    /\ Returned("HM")
    /\ obs["HM"].w0 > 0
    /\ Watermark(state, "HM") > obs["HM"].w0

\* C10: after every run that reaches save_state, max_id of each category is
\* the largest id in the category's store (0 for a store without data).
C10_MaxIdIsStoreMax ==
    pc = "done" => \A c \in Cat : Watermark(LoadState, c) = MaxOf(Ids(store[c]))

\* C11: in an incremental sync with watermark X only records with id > X are
\* accumulated: none with id <= X is in new_findings, none is among the rows
\* the sync appends to the store, and the count grows by the number of
\* appended rows with id > X.
C11_StrictlyAboveWatermark ==
    /\ (pc \in {"fetch", "persist"} /\ current_max_id > 0)
          => \A i \in 1..Len(new_findings) : new_findings[i] > current_max_id
    /\ \A c \in Cat :
          (Returned(c) /\ obs[c].w0 > 0 /\ pc # "done")
              => /\ \A id \in Ids(Added(c)) : id > obs[c].w0
                 /\ state[CountKey(c)] - LoadState[CountKey(c)]
                      = Cardinality({i \in 1..Len(Added(c)) : Added(c)[i] > obs[c].w0})
                 /\ Len(Added(c)) = obs[c].ret

\* C11 witness: an incremental sync of HIGH/MEDIUM met the record whose id is
\* the watermark, after it had accumulated newer ones, and has returned.
C11_Witness ==
    /\ obs["HM"].w0 > 0
    /\ Returned("HM")
    /\ obs["HM"].ret > 0
    /\ cat = "LG"
    /\ pc = "begin"
    /\ should_stop
    /\ new_findings # <<>>

\* the ids of a sequence of rows increase strictly from top to bottom
StrictlyAscending(rows) == \A i \in 1..(Len(rows) - 1) : rows[i] < rows[i + 1]

\* C12: in each category's store the ids increase strictly from top to
\* bottom, across all runs: every run appends in ascending order and only ids
\* greater than every id the store already holds.
C12_StoreStrictlyAscending ==
    \A c \in Cat : StrictlyAscending(store[c])

\* what a sync from watermark w0 accumulates when no request fails and the
\* remote listing holds n records throughout
Expected(w0, n) ==
    FetchPages(n, 1, w0, [new |-> <<>>, max |-> InitialNewMax(w0), stop |-> FALSE])

\* C13: a sync whose request for page 2 is answered 429 once and then with the
\* page ends with the new records, store, watermark and count of the sync in
\* which every request is answered with its page at once.
C13_RateLimitKeepsResult ==
    \A c \in Cat :
        (obs[c].again2 /\ Undisturbed(c) /\ pc # "done")
            => LET e == Expected(obs[c].w0, obs[c].snap)
               IN  /\ obs[c].ret = Len(e.new)
                   /\ Added(c) = RowsToAppend(e.new)
                   /\ store[c] = IF e.new = <<>> THEN obs[c].base
                                 ELSE InitialWorkbook(obs[c].w0, obs[c].base)
                                        \o RowsToAppend(e.new)
                   /\ Watermark(state, c) = e.max
                   /\ state[CountKey(c)] = LoadState[CountKey(c)] + Len(e.new)

\* C13 witness: an incremental sync of HIGH/MEDIUM whose page 2 came on the
\* retry after a 429 has returned with records of more than one page.
C13_Witness ==
    /\ obs["HM"].again2
    /\ Undisturbed("HM")
    /\ obs["HM"].w0 > 0
    /\ obs["HM"].ret > PAGE_SIZE
    /\ pc # "done"

\* C14: fetch_page raises a transport failure only after MAX_RETRIES failed
\* transport attempts on the page, and the wait after the k-th transport
\* failure (k = 1, 2) is RETRY_DELAY * 2^(k-1) seconds, whatever 429 responses
\* came before or between the failures.
C14_BackoffPerTransportFailure ==
    /\ (pc = "fetch" /\ nErr >= 1) => delay = RETRY_DELAY * 2^(nErr - 1)
    /\ (pc = "aborted" /\ obs[cat].end = "raise") => nErr = MAX_RETRIES

\* the rows a are the first rows of b
IsPrefix(a, b) == Len(a) <= Len(b) /\ SubSeq(b, 1, Len(a)) = a

\* C15: the store of a category is append-only across runs: the rows the file
\* held when a sync of the category began are the first rows of the file at
\* every later point of that run, whatever watermark the state file held.
C15_StoreAppendOnly ==
    \A c \in Cat : obs[c].end # "none" => IsPrefix(obs[c].base, store[c])

\* C16: in an incremental sync, once a record with id <= the watermark has
\* been met (should_stop), no record at or below the watermark has been
\* accumulated and no further page is requested, also when the page number
\* is below the total page count.
C16_StopAtBoundary ==
    should_stop => /\ pc # "fetch"
                   /\ \A i \in 1..Len(new_findings) : new_findings[i] > current_max_id

\* C16 witness: the boundary was met on a page with more than one page of the
\* listing still ahead, and the loop is over.
C16_Witness ==
    /\ should_stop
    /\ pc = "persist"
    /\ current_max_id > 0
    /\ new_findings # <<>>
    /\ page < TotalPages(remote[cat])

\* C17: a call of fetch_category for one category changes neither the other
\* category's max_id and count in the state mapping nor the other category's
\* store.
C17_OtherCategoryUntouched ==
    [][\A c \in Cat :
          (pc \in {"begin", "fetch", "persist"} /\ cat # c)
              => /\ state'[MaxIdKey(c)] = state[MaxIdKey(c)]
                 /\ state'[CountKey(c)] = state[CountKey(c)]
                 /\ store'[c] = store[c]]_vars

\* C17 witness: both calls of a run have returned, each with new records for
\* its own category.
C17_Witness ==
    /\ pc = "save"
    /\ obs["HM"].ret > 0
    /\ obs["LG"].ret > 0
    /\ state["high_medium_count"] = obs["HM"].ret
    /\ state["low_gas_count"] = obs["LG"].ret

\* C18: whenever a run has reached save_state, after any sequence of earlier
\* runs (those ended by an exception included), the count of each category in
\* the state file is the number of data rows of the category's store.
C18_CountIsRowCount ==
    pc = "done" => \A c \in Cat : LoadState[CountKey(c)] = Len(store[c])

\* C19: when the remote listing gains records between two page fetches of a
\* sync, the sync accumulates no id twice and appends no id twice to the
\* store.
C19_GrowingListingNoDuplicates ==
    /\ (pc \in {"fetch", "persist"} /\ obs[cat].changed) => NoDuplicates(new_findings)
    /\ \A c \in Cat : (Returned(c) /\ obs[c].changed) => NoDuplicates(Added(c))

\* requests the call of fetch_page in progress has had answered
Requests == n429 + nErr

\* C20: a call of fetch_page is over after at most MAX_RETRIES requests,
\* whatever the answers: while a call is in progress fewer than MAX_RETRIES
\* requests have been answered, each with a 429 or a transport failure that
\* took one value of `attempt`, and no call gets more than MAX_RETRIES answers.
C20_FetchPageBounded ==
    /\ Requests <= MAX_RETRIES
    /\ pc = "fetch" => /\ Requests < MAX_RETRIES
                       /\ attempt = Requests

\* C20 witness: every request of a call was answered 429 and the call has
\* returned None.
C20_Witness ==
    /\ pc = "persist"
    /\ n429 = MAX_RETRIES
    /\ obs[cat].end = "None"

====
